---- MODULE Spec2Model ----
(***************************************************************************)
(* Model of my-specbot: the batch importer (src/batch_importer.py), the    *)
(* Drive renamer (src/drive_file_renamer.py) and the cache file they       *)
(* share with the Streamlit app (src/app.py).                              *)
(*                                                                         *)
(* A filename is a sequence of symbols.  "_" and "." are the two symbols   *)
(* the code inspects (str.split('_', 4), os.path.splitext); every other    *)
(* symbol stands for a run of characters free of both.  A field of a       *)
(* parse is again a sequence of symbols, the empty string is <<>>.         *)
(***************************************************************************)
EXTENDS Integers, Sequences, FiniteSets, TLC

VARIABLES
    drive,        \* the Drive folder: sequence of [id, name], in listing order
    disk,         \* gpt_filename_cache.json: [exists, complete, content]
    logfile,      \* drive_rename_log.json:   [exists, complete, content]
    prog,         \* the program that is running: "none", "importer", "renamer"
    pc,           \* its position
    cache,        \* its in-memory cache (a Python dict, insertion-ordered)
    files,        \* the listing it fetched
    i,            \* index of the next listed file
    updated,      \* batch_parse_and_update_cache's flag
    cache_by_old, \* the renamer's lookup by cache key
    cache_by_new, \* the renamer's lookup by target name
    rename_log,   \* the renamer's log of this run
    calls,        \* completion-service calls made for the file last parsed
    last,         \* what the last loop iteration did
    towrite,      \* save in progress: the document being written
    runs,         \* completed or aborted program runs
    audited,      \* every entry a completed renamer run wrote to the audit log
    promoted,     \* the Example Store as loaded, and every entry appended since
    settled,      \* the last program run was a renamer run that ran to its end
    sheet,        \* the rows of the Parsed_Files tab of the Google Sheet
    table         \* the app's DataFrame of the cache, as rows

vars == <<drive, disk, logfile, prog, pc, cache, files, i, updated,
          cache_by_old, cache_by_new, rename_log, calls, last, towrite,
          runs, audited, promoted, settled, sheet, table>>

(***************************************************************************)
(* Bounds of the model.                                                    *)
(***************************************************************************)
MaxStemLen == 9      \* longest enumerated filename, in symbols
MaxRuns == 3         \* program runs in one behaviour

(***************************************************************************)
(* Program constants.                                                      *)
(***************************************************************************)
EXAMPLES_KEY == <<"examples">>
RENAME_LOG_KEY == <<"rename", "_", "log">>
MaxExamples == 20
BatchExamples == 5
MaxSplit == 4
NumFields == 5
RuleNote == <<"Standard 5-part parse (Product+Variant combined).">>
PrimaryModel == "gpt-4o"
SecondaryModel == "gpt-3.5-turbo"
EmptyFields == << <<>>, <<>>, <<>>, <<>>, <<>> >>

(***************************************************************************)
(* Strings.                                                                *)
(***************************************************************************)
Positions(s, c) == {p \in 1..Len(s) : s[p] = c}

Max(S) == CHOOSE m \in S : \A n \in S : n <= m

Min(S) == CHOOSE m \in S : \A n \in S : m <= n

\* os.path.splitext: the extension starts at the last ".", unless only "."s
\* come before it.  Returns <<root, ext>>.
splitext(p) ==
    LET dots == Positions(p, ".")
    IN  IF dots = {} THEN <<p, <<>>>>
        ELSE LET d == Max(dots)
             IN  IF \E q \in 1..(d - 1) : p[q] # "."
                 THEN <<SubSeq(p, 1, d - 1), SubSeq(p, d, Len(p))>>
                 ELSE <<p, <<>>>>

\* str.split('_', maxsplit): cut at the first maxsplit underscores.
RECURSIVE split(_, _)
split(s, maxsplit) ==
    LET us == Positions(s, "_")
    IN  IF maxsplit = 0 \/ us = {} THEN <<s>>
        ELSE LET u == Min(us)
             IN  <<SubSeq(s, 1, u - 1)>> \o split(SubSeq(s, u + 1, Len(s)), maxsplit - 1)

\* '_'.join(parts)
RECURSIVE join(_)
join(parts) ==
    IF Len(parts) = 0 THEN <<>>
    ELSE IF Len(parts) = 1 THEN parts[1]
    ELSE parts[1] \o <<"_">> \o join(Tail(parts))

\* all(parsed): every field is a non-empty string
all(parsed) == \A j \in 1..Len(parsed) : parsed[j] # <<>>

(***************************************************************************)
(* The cache: a Python dict, kept as a sequence of [k, v] in insertion     *)
(* order.                                                                  *)
(***************************************************************************)
Keys(c) == {c[j].k : j \in 1..Len(c)}

Has(c, key) == key \in Keys(c)

IndexOf(c, key) == CHOOSE j \in 1..Len(c) : c[j].k = key

Get(c, key) == c[IndexOf(c, key)].v

\* c[key] = value
Put(c, key, value) ==
    IF Has(c, key) THEN [c EXCEPT ![IndexOf(c, key)].v = value]
    ELSE Append(c, [k |-> key, v |-> value])

\* c.pop(key)
Pop(c, key) ==
    LET j == IndexOf(c, key)
    IN  SubSeq(c, 1, j - 1) \o SubSeq(c, j + 1, Len(c))

\* dict equality: same keys, same values, whatever the order
SameContent(c1, c2) ==
    /\ Keys(c1) = Keys(c2)
    /\ \A key \in Keys(c1) : Get(c1, key) = Get(c2, key)

\* the Example Store and the rename log are held as [list |-> <<...>>]
IsList(v) == "list" \in DOMAIN v

ExamplesOf(c) ==
    IF Has(c, EXAMPLES_KEY) /\ IsList(Get(c, EXAMPLES_KEY))
    THEN Get(c, EXAMPLES_KEY).list ELSE <<>>

(***************************************************************************)
(* batch_importer.py                                                       *)
(***************************************************************************)
None == [none |-> TRUE, parts |-> <<>>, notes |-> <<>>]

parse_filename(filename) ==
    LET name == splitext(filename)[1]
        parts == split(name, MaxSplit)
    IN  IF Len(parts) = NumFields
        THEN [none |-> FALSE, parts |-> parts, notes |-> RuleNote]
        ELSE None

\* f"{drive_base}{file_id}/view?usp=drivesdk"; file ids are strings
view_url(file_id) == <<"https://drive.google.com/file/d/", file_id, "/view?usp=drivesdk">>

ParseRecord(parsed, notes, source, url) ==
    [parsed |-> parsed, notes |-> notes, source |-> source,
     corrected_by |-> "None", view_url |-> url]

\* a key that holds a ParseRecord
IsRecordKey(c, key) == Has(c, key) /\ ~IsList(Get(c, key))

\* cache.get(EXAMPLES_KEY, [])[:5], the examples put in the prompt
build_gpt_prompt(filename, c) ==
    LET ex == ExamplesOf(c)
    IN  [filename |-> filename,
         examples |-> SubSeq(ex, 1, IF Len(ex) < BatchExamples THEN Len(ex) ELSE BatchExamples)]

\* What the completion service can answer:
\*   error  the call raises (service error, timeout)
\*   text   the content is not JSON: json.loads raises
\*   nokey  a JSON object without "parsed": data['parsed'] raises
\*   null   a JSON object whose "parsed" is null
\*   list   a JSON object whose "parsed" is a list of strings
ErrorText(kind) ==
    CASE kind = "error" -> "Connection error."
      [] kind = "text" -> "Expecting value: line 1 column 1 (char 0)"
      [] OTHER -> "'parsed'"

\* Returns (parsed, notes); isnull says that parsed is None.
gpt_parse_filename(filename, c, reply) ==
    CASE reply.kind = "list" ->
           [isnull |-> FALSE, parsed |-> reply.parsed, notes |-> reply.notes]
      [] reply.kind = "null" ->
           [isnull |-> TRUE, parsed |-> <<>>, notes |-> reply.notes]
      [] OTHER ->
           [isnull |-> FALSE, parsed |-> EmptyFields,
            notes |-> <<"GPT error: ", ErrorText(reply.kind)>>]

\* the models gpt_parse_filename calls for one filename
gpt_calls(filename, c, reply) ==
    <<[model |-> PrimaryModel, prompt |-> build_gpt_prompt(filename, c)]>>

\* a slip of the slice: [:20] keeps the oldest entries
KeepOldest(l) ==
    IF Len(l) > MaxExamples THEN SubSeq(l, 1, MaxExamples) ELSE l

\* cache[EXAMPLES_KEY][-20:] once the list is longer than 20
KeepRecent(l) ==
    IF Len(l) > MaxExamples THEN SubSeq(l, Len(l) - MaxExamples + 1, Len(l)) ELSE l

ExampleEntry(filename, r, url) ==
    [filename |-> filename, parsed |-> r.parsed, notes |-> r.notes,
     source |-> r.source, corrected_by |-> "None", view_url |-> url]

\* a slip of the test: the length alone
QualifiesByLength(r) == Len(r.parsed) = NumFields

\* "Add to few-shot examples if high quality"
Qualifies(r) == Len(r.parsed) = NumFields /\ all(r.parsed)

\* lines 151-162, for the record just stored under filename:
\* [cache, raised, appended]
Promote(c, filename, url) ==
    LET r == Get(c, filename)
        c1 == IF Has(c, EXAMPLES_KEY) THEN c ELSE Put(c, EXAMPLES_KEY, [list |-> <<>>])
        e == ExampleEntry(filename, r, url)
    IN  IF ~Qualifies(r) THEN [cache |-> c, raised |-> FALSE, appended |-> <<>>]
        ELSE IF ~IsList(Get(c1, EXAMPLES_KEY))
             THEN [cache |-> c1, raised |-> TRUE, appended |-> <<>>]  \* a dict has no append
             ELSE [cache |-> Put(c1, EXAMPLES_KEY,
                                 [list |-> KeepRecent(Append(ExamplesOf(c1), e))]),
                   raised |-> FALSE, appended |-> <<e>>]

\* the iteration on a cached name without its `continue`: the link is
\* refreshed and the record is handed to the promotion below once more
StepCachedNoContinue(c, file, upd) ==
    LET c1 == Put(c, file.name, [Get(c, file.name) EXCEPT !.view_url = view_url(file.id)])
        pr == Promote(c1, file.name, view_url(file.id))
    IN  [cache |-> pr.cache, raised |-> pr.raised, updated |-> TRUE,
         appended |-> pr.appended]

\* One iteration of the loop of batch_parse_and_update_cache on an already
\* cached name (lines 129-131): [cache, raised, updated, appended].
StepCached(c, file, upd) ==
    IF IsList(Get(c, file.name))
    THEN [cache |-> c, raised |-> TRUE, updated |-> upd,   \* a list has no ['view_url']
          appended |-> <<>>]
    ELSE [cache |-> Put(c, file.name,
                        [Get(c, file.name) EXCEPT !.view_url = view_url(file.id)]),
          raised |-> FALSE, updated |-> upd, appended |-> <<>>]

\* One iteration on a name the Grammar Parser splits (lines 133-140, 150-163).
StepRule(c, file, upd) ==
    LET p == parse_filename(file.name)
        c1 == Put(c, file.name, ParseRecord(p.parts, p.notes, "Rule", view_url(file.id)))
        pr == Promote(c1, file.name, view_url(file.id))
    IN  [cache |-> pr.cache, raised |-> pr.raised,
         updated |-> IF pr.raised THEN upd ELSE TRUE, appended |-> pr.appended]

\* One iteration on any other name (lines 141-163).  A null "parsed" is
\* stored and then len(None) raises TypeError at line 151.
StepModel(c, file, upd, reply) ==
    LET g == gpt_parse_filename(file.name, c, reply)
        c1 == Put(c, file.name, ParseRecord(g.parsed, g.notes, "GPT", view_url(file.id)))
        pr == Promote(c1, file.name, view_url(file.id))
    IN  IF g.isnull
        THEN [cache |-> c, raised |-> TRUE, updated |-> upd, appended |-> <<>>]
        ELSE [cache |-> pr.cache, raised |-> pr.raised,
              updated |-> IF pr.raised THEN upd ELSE TRUE, appended |-> pr.appended]

\* `if parts:` a list of 5 pieces is true, None is false
Truthy(p) == ~p.none /\ Len(p.parts) > 0

\* One iteration of the loop, whichever branch it takes.
BatchStep(c, file, upd, reply) ==
    IF Has(c, file.name) THEN StepCached(c, file, upd)
    ELSE IF Truthy(parse_filename(file.name)) THEN StepRule(c, file, upd)
    ELSE StepModel(c, file, upd, reply)

\* load_cache of batch_importer.py and app.py; the file is complete
load_cache(d) == IF d.exists THEN d.content ELSE <<[k |-> EXAMPLES_KEY, v |-> [list |-> <<>>]]>>

\* json.load raises on a file that is not one complete JSON document
Loadable(d) == ~d.exists \/ d.complete

NoFile == [exists |-> FALSE, complete |-> FALSE, content |-> <<>>]

FileOf(doc) == [exists |-> TRUE, complete |-> TRUE, content |-> doc]

NoStep == [op |-> "none", reply |-> "", name |-> <<>>, raised |-> FALSE]

(***************************************************************************)
(* The programs as processes.  A program that ends (returns, raises or is  *)
(* killed) loses its memory.                                               *)
(***************************************************************************)
Exit ==
    /\ prog' = "none"
    /\ pc' = "idle"
    /\ cache' = <<>>
    /\ files' = <<>>
    /\ i' = 1
    /\ updated' = FALSE
    /\ cache_by_old' = <<>>
    /\ cache_by_new' = <<>>
    /\ rename_log' = <<>>
    /\ calls' = <<>>
    /\ towrite' = <<>>
    /\ promoted' = <<>>
    /\ table' = <<>>
    /\ runs' = runs + 1

\* open(CACHE_FILE, 'w'): the file is truncated before anything is written
SaveOpen ==
    /\ pc = "save"
    /\ disk' = [exists |-> TRUE, complete |-> FALSE, content |-> <<>>]
    /\ towrite' = cache
    /\ pc' = "dump"
    /\ UNCHANGED <<drive, sheet, logfile, prog, table, cache, files, i, updated, cache_by_old,
                   cache_by_new, rename_log, calls, last, runs, audited,
                   promoted, settled>>

\* json.dump writes the document piece by piece
SaveDump ==
    /\ pc = "dump"
    /\ Len(disk.content) < Len(towrite)
    /\ disk' = [disk EXCEPT !.content = Append(@, towrite[Len(@) + 1])]
    /\ UNCHANGED <<drive, sheet, logfile, prog, table, pc, cache, files, i, updated, cache_by_old,
                   cache_by_new, rename_log, calls, last, towrite, runs, audited,
                   promoted, settled>>

\* the end of the with block: the document is closed and flushed
SaveClose ==
    /\ pc = "dump"
    /\ Len(disk.content) = Len(towrite)
    /\ disk' = [disk EXCEPT !.complete = TRUE]
    /\ pc' = CASE prog = "renamer" -> "savelog"
                [] prog = "app" -> "editor"
                [] OTHER -> "sync"
    /\ UNCHANGED <<drive, sheet, logfile, prog, table, cache, files, i, updated, cache_by_old,
                   cache_by_new, rename_log, calls, last, towrite, runs, audited,
                   promoted, settled>>

\* the operator kills the running process
Kill ==
    /\ prog # "none"
    /\ last' = [NoStep EXCEPT !.op = "killed"]
    /\ settled' = FALSE
    /\ Exit
    /\ UNCHANGED <<drive, sheet, disk, logfile, audited>>

(***************************************************************************)
(* batch_importer.py, __main__                                             *)
(***************************************************************************)
ImportStart ==
    /\ prog = "none"
    /\ runs < MaxRuns
    /\ Loadable(disk)
    /\ prog' = "importer"
    /\ pc' = "loop"
    /\ files' = drive
    /\ cache' = load_cache(disk)
    /\ i' = 1
    /\ updated' = FALSE
    /\ promoted' = ExamplesOf(load_cache(disk))
    /\ last' = NoStep
    /\ settled' = FALSE
    /\ UNCHANGED <<drive, sheet, disk, logfile, table, cache_by_old, cache_by_new,
                   rename_log, calls, towrite, runs, audited>>

\* json.load raises: the run ends before it did anything
LoadError ==
    /\ prog = "none"
    /\ runs < MaxRuns
    /\ ~Loadable(disk)
    /\ last' = [NoStep EXCEPT !.op = "load", !.raised = TRUE]
    /\ settled' = FALSE
    /\ Exit
    /\ UNCHANGED <<drive, sheet, disk, logfile, audited>>

InLoop == prog = "importer" /\ pc = "loop" /\ i <= Len(files)

\* the effect of one iteration with result r, after the calls `made`
Iterate(op, kind, r, made) ==
    /\ last' = [op |-> op, reply |-> kind, name |-> files[i].name, raised |-> r.raised]
    /\ IF r.raised
       THEN Exit
       ELSE /\ cache' = r.cache
            /\ updated' = r.updated
            /\ i' = i + 1
            /\ calls' = made
            /\ promoted' = promoted \o r.appended
            /\ UNCHANGED <<prog, table, pc, files, cache_by_old, cache_by_new, rename_log,
                           towrite, runs>>
    /\ UNCHANGED <<drive, sheet, disk, logfile, audited, settled>>

ImportCached ==
    /\ InLoop
    /\ Has(cache, files[i].name)
    /\ Iterate("cached", "", StepCached(cache, files[i], updated), <<>>)

ImportRule ==
    /\ InLoop
    /\ ~Has(cache, files[i].name)
    /\ Truthy(parse_filename(files[i].name))
    /\ Iterate("rule", "", StepRule(cache, files[i], updated), <<>>)

(***************************************************************************)
(* The replies of the completion service that the model draws from.        *)
(***************************************************************************)
GptNote == <<"model note">>

FullFields == << <<"a">>, <<"b">>, <<"c">>, <<"d">>, <<"e">> >>

GapFields == << <<"a">>, <<>>, <<"c">>, <<"d">>, <<"e">> >>

ShortFields == << <<"a">>, <<"b">>, <<"c">> >>

LongFields == << <<"a">>, <<"b">>, <<"c">>, <<"d">>, <<"e">>, <<"f">> >>

Replies ==
    {[kind |-> k, parsed |-> <<>>, notes |-> <<>>] : k \in {"error", "text", "nokey"}}
    \cup {[kind |-> "null", parsed |-> <<>>, notes |-> GptNote]}
    \cup {[kind |-> "list", parsed |-> f, notes |-> GptNote] :
             f \in {FullFields, GapFields, ShortFields, LongFields}}

ImportModel ==
    /\ InLoop
    /\ ~Has(cache, files[i].name)
    /\ ~Truthy(parse_filename(files[i].name))
    /\ \E reply \in Replies :
         Iterate("model", reply.kind, StepModel(cache, files[i], updated, reply),
                 gpt_calls(files[i].name, cache, reply))

\* line 164: the loop is over, batch_parse_and_update_cache returns updated
ImportReturn ==
    /\ prog = "importer"
    /\ pc = "loop"
    /\ i > Len(files)
    /\ pc' = "returned"
    /\ UNCHANGED <<drive, sheet, disk, logfile, prog, table, cache, files, i, updated, cache_by_old,
                   cache_by_new, rename_log, calls, last, towrite, runs, audited,
                   promoted, settled>>

\* lines 210-214: save only if the batch says it updated the cache
ImportDecide ==
    /\ prog = "importer"
    /\ pc = "returned"
    /\ pc' = IF updated THEN "save" ELSE "sync"
    /\ UNCHANGED <<drive, sheet, disk, logfile, prog, table, cache, files, i, updated, cache_by_old,
                   cache_by_new, rename_log, calls, last, towrite, runs, audited,
                   promoted, settled>>

\* The loop of write_to_gsheet (lines 168-174) and of load_cache_df
\* (app.py 63-69): one row per item of the cache but the Example Store.  An
\* item that holds a list has no .get: the loop raises at its key.
\* [rows, raised, at]
RECURSIVE CacheRows(_)
CacheRows(c) ==
    IF c = <<>> THEN [rows |-> <<>>, raised |-> FALSE, at |-> <<>>]
    ELSE IF c[1].k = EXAMPLES_KEY THEN CacheRows(Tail(c))
    ELSE IF IsList(c[1].v) THEN [rows |-> <<>>, raised |-> TRUE, at |-> c[1].k]
    ELSE LET rest == CacheRows(Tail(c))
         IN  [rows |-> <<c[1].v.parsed \o <<c[1].k, c[1].v.notes, c[1].v.view_url>> >>
                          \o rest.rows,
              raised |-> rest.raised, at |-> rest.at]

SheetColumns ==
    << <<"Item Code">>, <<"Brand">>, <<"Product + Variant">>, <<"Dimensions">>,
       <<"No. of Colours">>, <<"Filename">>, <<"Notes">>, <<"View URL">> >>

\* pd.DataFrame(rows, columns=...): the rows are padded with None to the
\* longest row, and the frame is refused unless that length is the number of
\* columns.  [rows, raised]
DataFrame(rows) ==
    LET width == Max({Len(rows[j]) : j \in 1..Len(rows)})
    IN  IF rows = <<>> THEN [rows |-> <<>>, raised |-> FALSE]
        ELSE IF width # Len(SheetColumns) THEN [rows |-> <<>>, raised |-> TRUE]
        ELSE [rows |-> [j \in 1..Len(rows) |->
                           rows[j] \o [n \in 1..(width - Len(rows[j])) |-> <<"None">>]],
              raised |-> FALSE]

\* write_to_gsheet up to the values it sends: [values, raised, at]
write_to_gsheet(c) ==
    LET r == CacheRows(c)
        df == DataFrame(r.rows)
    IN  IF r.raised THEN [values |-> <<>>, raised |-> TRUE, at |-> r.at]
        ELSE IF df.raised THEN [values |-> <<>>, raised |-> TRUE, at |-> <<>>]
        ELSE [values |-> <<SheetColumns>> \o df.rows, raised |-> FALSE, at |-> <<>>]

\* lines 216-219: "Always sync cache to Google Sheet!", then the program ends
ImportSync ==
    /\ prog = "importer"
    /\ pc = "sync"
    /\ sheet' = IF write_to_gsheet(cache).raised THEN sheet
                ELSE write_to_gsheet(cache).values
    /\ last' = [op |-> "sync", reply |-> "", name |-> write_to_gsheet(cache).at,
                raised |-> write_to_gsheet(cache).raised]
    /\ Exit
    /\ UNCHANGED <<drive, disk, logfile, audited, settled>>

(***************************************************************************)
(* app.py: one run of the Streamlit script, main().                        *)
(***************************************************************************)
\* "Save changes for <fname>" in the editor (lines 240-243)
EditSave(c, fname, fields, notes) ==
    Put(c, fname, [Get(c, fname) EXCEPT !.parsed = fields, !.notes = notes])

\* load_cache_df: [rows, raised, at]
load_cache_df(c) ==
    LET r == CacheRows(c)
        df == DataFrame(r.rows)
    IN  IF r.raised THEN [rows |-> <<>>, raised |-> TRUE, at |-> r.at]
        ELSE [rows |-> df.rows, raised |-> df.raised, at |-> <<>>]

\* line 225: [fname for fname in cache if fname != EXAMPLES_KEY]
Filenames(c) ==
    SelectSeq([j \in 1..Len(c) |-> c[j].k], LAMBDA key : key # EXAMPLES_KEY)

\* lines 228-238: entry.get needs a dict, fields[0..4] need five fields
Renders(c, fname) ==
    /\ ~IsList(Get(c, fname))
    /\ Len(Get(c, fname).parsed) >= NumFields

\* the examples written into gpt_query (lines 103-125)
EXAMPLES ==
    << [filename |-> <<"3103159", "_", "Dettol", "_", "Soap", "_", "Cool", "_",
                       "Menthol", "_", "96X135MM", "_", "9COL", ".", "pdf">>,
        parsed |-> << <<"3103159">>, <<"Dettol">>,
                      <<"Soap", "_", "Cool", "_", "Menthol">>, <<"96X135MM">>,
                      <<"9COL">> >>,
        notes |-> <<"Standard Dettol soap spec.">>],
       [filename |-> <<"ITM-GER-004", "_", "Germol", "_", "Soap", "_", "Lemon", "_",
                       "174X95MM", "_", "5COL", ".", "png">>,
        parsed |-> << <<"ITM-GER-004">>, <<"Germol">>, <<"Soap", "_", "Lemon">>,
                      <<"174X95MM">>, <<"5COL">> >>,
        notes |-> <<"Non-numeric code example.">>],
       [filename |-> <<"20042586", "_", "Godrej", "_", "Soap", "_", "LimeAloeVera", "_",
                       "126X169MM", "_", "8COL", ".", "pdf">>,
        parsed |-> << <<"20042586">>, <<"Godrej">>, <<"Soap", "_", "LimeAloeVera">>,
                      <<"126X169MM">>, <<"8COL">> >>,
        notes |-> <<"Godrej LimeAloeVera, 8 colors.">>] >>

UiExamples == 2

\* gpt_query (lines 102-167), as the completion calls it makes: gpt-4o, and
\* gpt-3.5-turbo when that call raises
gpt_query(user_query, c, primary_ok) ==
    LET ex == ExamplesOf(c)
        prompt == [filename |-> user_query,
                   examples |-> SubSeq(ex, 1, IF Len(ex) < UiExamples THEN Len(ex)
                                              ELSE UiExamples) \o EXAMPLES]
    IN  IF primary_ok THEN <<[model |-> PrimaryModel, prompt |-> prompt]>>
        ELSE <<[model |-> PrimaryModel, prompt |-> prompt],
               [model |-> SecondaryModel, prompt |-> prompt]>>

UserQuery == <<"explain g.x">>

OtherFields == << <<"a">>, <<"b">>, <<"c">>, <<"d">>, <<"f">> >>

UserNote == <<"corrected">>

\* line 175: the script starts and builds the table; an exception ends
\* the script run
AppStart ==
    /\ prog = "none"
    /\ runs < MaxRuns
    /\ Loadable(disk)
    /\ settled' = FALSE
    /\ IF load_cache_df(load_cache(disk)).raised
       THEN /\ last' = [op |-> "table", reply |-> "",
                        name |-> load_cache_df(load_cache(disk)).at, raised |-> TRUE]
            /\ Exit
       ELSE /\ prog' = "app"
            /\ pc' = "query"
            /\ cache' = load_cache(disk)
            /\ table' = load_cache_df(load_cache(disk)).rows
            /\ i' = 1
            /\ last' = NoStep
            /\ UNCHANGED <<files, updated, cache_by_old, cache_by_new, rename_log,
                           calls, towrite, runs, promoted>>
    /\ UNCHANGED <<drive, sheet, disk, logfile, audited>>

\* lines 204-218: no question, a question the table answers, or a question
\* that goes to gpt_query; then line 224 loads the cache for the editor
AppQuery ==
    /\ prog = "app"
    /\ pc = "query"
    /\ \E q \in {"none", "shown", "gpt", "fallback"} :
         /\ q = "shown" => table # <<>>
         /\ calls' = IF q \in {"gpt", "fallback"}
                     THEN gpt_query(UserQuery, cache, q = "gpt") ELSE <<>>
    /\ cache' = load_cache(disk)
    /\ i' = 1
    /\ pc' = "editor"
    /\ UNCHANGED <<drive, sheet, disk, logfile, prog, table, files, updated, cache_by_old,
                   cache_by_new, rename_log, last, towrite, runs, audited, promoted,
                   settled>>

InEditor == prog = "app" /\ pc = "editor" /\ i <= Len(Filenames(cache))

\* lines 227-255 for one filename, its Save button not pressed
AppRender ==
    /\ InEditor
    /\ IF Renders(cache, Filenames(cache)[i])
       THEN /\ i' = i + 1
            /\ UNCHANGED <<prog, table, pc, cache, files, updated, cache_by_old,
                           cache_by_new, rename_log, calls, last, towrite, runs,
                           promoted>>
       ELSE /\ last' = [op |-> "editor", reply |-> "", name |-> Filenames(cache)[i],
                        raised |-> TRUE]
            /\ Exit
    /\ UNCHANGED <<drive, sheet, disk, logfile, audited, settled>>

\* lines 227-243 for one filename, its Save button pressed: a script run
\* has at most one pressed button
AppEdit ==
    /\ InEditor
    /\ Renders(cache, Filenames(cache)[i])
    /\ last.op # "edited"
    /\ \E fields \in {SubSeq(Get(cache, Filenames(cache)[i]).parsed, 1, NumFields),
                       OtherFields} :
         cache' = EditSave(cache, Filenames(cache)[i], fields, UserNote)
    /\ last' = [op |-> "edited", reply |-> "", name |-> Filenames(cache)[i],
                raised |-> FALSE]
    /\ i' = i + 1
    /\ pc' = "save"
    /\ UNCHANGED <<drive, sheet, disk, logfile, prog, table, files, updated, cache_by_old,
                   cache_by_new, rename_log, calls, towrite, runs, audited, promoted,
                   settled>>

\* lines 257-258: the script run ends
AppEnd ==
    /\ prog = "app"
    /\ pc = "editor"
    /\ i > Len(Filenames(cache))
    /\ Exit
    /\ UNCHANGED <<drive, sheet, disk, logfile, last, audited, settled>>

(***************************************************************************)
(* drive_file_renamer.py                                                   *)
(***************************************************************************)
\* load_cache of drive_file_renamer.py
load_cache_renamer(d) == IF d.exists THEN d.content ELSE <<>>

\* a slip of the composition: the extension is left out
TargetWithoutExt(parsed_fields, orig_ext) == join(parsed_fields)

get_target_filename(parsed_fields, orig_ext) == join(parsed_fields) \o orig_ext

\* {k: v for k, v in cache.items() if k not in ['examples', 'rename_log']}
RECURSIVE ByOld(_)
ByOld(c) ==
    IF c = <<>> THEN <<>>
    ELSE IF c[1].k \in {EXAMPLES_KEY, RENAME_LOG_KEY} THEN ByOld(Tail(c))
    ELSE <<c[1]>> \o ByOld(Tail(c))

\* lines 62-66, over the first n items of cache_by_old: a later record takes
\* the target name of an earlier one
RECURSIVE ByNew(_, _)
ByNew(old, n) ==
    IF n = 0 THEN <<>>
    ELSE Put(ByNew(old, n - 1),
             get_target_filename(old[n].v.parsed, splitext(old[n].k)[2]),
             old[n].v)

\* cache_by_old.get(curr_name) or cache_by_new.get(curr_name)
Resolves(old, new, curr_name) == Has(old, curr_name) \/ Has(new, curr_name)

Resolve(old, new, curr_name) ==
    IF Has(old, curr_name) THEN Get(old, curr_name) ELSE Get(new, curr_name)

\* line 82: the target name of the listed file f
TargetOf(old, new, f) ==
    get_target_filename(Resolve(old, new, f.name).parsed, splitext(f.name)[2])

\* lines 92-93
MoveKey(c, curr_name, tgt_name) ==
    IF Has(c, curr_name) /\ ~Has(c, tgt_name)
    THEN Put(Pop(c, curr_name), tgt_name, Get(c, curr_name))
    ELSE c

\* a slip of the call: the update is never executed
DriveRenameDropped(d, file_id, tgt_name) == d

\* files().update(fileId=file_id, body={"name": tgt_name})
DriveRename(d, file_id, tgt_name) ==
    [j \in 1..Len(d) |-> IF d[j].id = file_id THEN [d[j] EXCEPT !.name = tgt_name] ELSE d[j]]

RenameStart ==
    /\ prog = "none"
    /\ runs < MaxRuns
    /\ Loadable(disk)
    /\ prog' = "renamer"
    /\ pc' = "loop"
    /\ cache' = load_cache_renamer(disk)
    /\ cache_by_old' = ByOld(load_cache_renamer(disk))
    /\ cache_by_new' = ByNew(ByOld(load_cache_renamer(disk)),
                             Len(ByOld(load_cache_renamer(disk))))
    /\ files' = drive
    /\ i' = 1
    /\ rename_log' = <<>>
    /\ last' = NoStep
    /\ UNCHANGED <<drive, sheet, disk, logfile, table, updated, calls, towrite, runs,
                   audited, promoted, settled>>

InRename == prog = "renamer" /\ pc = "loop" /\ i <= Len(files)

\* lines 83-94
RenameFile ==
    /\ InRename
    /\ Resolves(cache_by_old, cache_by_new, files[i].name)
    /\ files[i].name # TargetOf(cache_by_old, cache_by_new, files[i])
    /\ LET tgt == TargetOf(cache_by_old, cache_by_new, files[i])
       IN  /\ drive' = DriveRename(drive, files[i].id, tgt)
           /\ rename_log' = Append(rename_log, [file_id |-> files[i].id,
                                                old_name |-> files[i].name,
                                                new_name |-> tgt])
           /\ cache' = MoveKey(cache, files[i].name, tgt)
    /\ i' = i + 1
    /\ last' = [NoStep EXCEPT !.op = "renamed", !.name = files[i].name]
    /\ UNCHANGED <<sheet, disk, logfile, prog, table, pc, files, updated, cache_by_old,
                   cache_by_new, calls, towrite, runs, audited, promoted, settled>>

\* lines 95-96
RenameSame ==
    /\ InRename
    /\ Resolves(cache_by_old, cache_by_new, files[i].name)
    /\ files[i].name = TargetOf(cache_by_old, cache_by_new, files[i])
    /\ i' = i + 1
    /\ last' = [NoStep EXCEPT !.op = "same", !.name = files[i].name]
    /\ UNCHANGED <<drive, sheet, disk, logfile, prog, table, pc, cache, files, updated, cache_by_old,
                   cache_by_new, rename_log, calls, towrite, runs, audited, promoted,
                   settled>>

\* a slip of the else branch: the unmatched file is given an empty record
InventRecord(c, curr_name) ==
    Put(c, curr_name, ParseRecord(EmptyFields, <<>>, "GPT", <<>>))

\* lines 97-99, on the cache: the file is reported and counted as skipped
SkipUnmatched(c, curr_name) == c

\* lines 97-99
RenameUnmatched ==
    /\ InRename
    /\ ~Resolves(cache_by_old, cache_by_new, files[i].name)
    /\ cache' = SkipUnmatched(cache, files[i].name)
    /\ i' = i + 1
    /\ last' = [NoStep EXCEPT !.op = "unmatched", !.name = files[i].name]
    /\ UNCHANGED <<drive, sheet, disk, logfile, prog, table, pc, files, updated,
                   cache_by_old, cache_by_new, rename_log, calls, towrite, runs,
                   audited, promoted, settled>>

\* line 105, then save_cache(cache)
RenameFinish ==
    /\ prog = "renamer"
    /\ pc = "loop"
    /\ i > Len(files)
    /\ cache' = Put(cache, RENAME_LOG_KEY, [list |-> rename_log])
    /\ pc' = "save"
    /\ UNCHANGED <<drive, sheet, disk, logfile, prog, table, files, i, updated, cache_by_old,
                   cache_by_new, rename_log, calls, last, towrite, runs, audited,
                   promoted, settled>>

\* save_rename_log: open(RENAME_LOG, 'w') truncates the audit file
LogOpen ==
    /\ prog = "renamer"
    /\ pc = "savelog"
    /\ logfile' = [exists |-> TRUE, complete |-> FALSE, content |-> <<>>]
    /\ pc' = "dumplog"
    /\ UNCHANGED <<drive, sheet, disk, prog, table, cache, files, i, updated, cache_by_old,
                   cache_by_new, rename_log, calls, last, towrite, runs, audited,
                   promoted, settled>>

\* json.dump(log, f) and the end of the with block; the program ends
LogWrite ==
    /\ prog = "renamer"
    /\ pc = "dumplog"
    /\ logfile' = [exists |-> TRUE, complete |-> TRUE, content |-> rename_log]
    /\ audited' = audited \o rename_log
    /\ settled' = TRUE
    /\ Exit
    /\ UNCHANGED <<drive, sheet, disk, last>>

(***************************************************************************)
(* Initial states: the files the programs find when they start.            *)
(***************************************************************************)
MaxFiles == 2        \* files in the Drive folder

FileIds == <<"f1", "f2", "f3", "f4">>

NameRule == <<"a", "_", "b", "_", "c", "_", "d", "_", "e", ".", "x">>

NameModel == <<"g", ".", "x">>

NameGap == <<"a", "_", "_", "c", "_", "d", "_", "e", ".", "x">>

ImportNames == {NameRule, NameModel, NameGap}

\* folders of 1..MaxFiles files; Drive allows two files of one name
Listings(names) ==
    UNION {{[j \in 1..n |-> [id |-> FileIds[j], name |-> f[j]]] : f \in [1..n -> names]} :
           n \in 1..MaxFiles}

Idle ==
    /\ prog = "none"
    /\ pc = "idle"
    /\ cache = <<>>
    /\ files = <<>>
    /\ i = 1
    /\ updated = FALSE
    /\ cache_by_old = <<>>
    /\ cache_by_new = <<>>
    /\ rename_log = <<>>
    /\ calls = <<>>
    /\ last = NoStep
    /\ towrite = <<>>
    /\ runs = 0
    /\ audited = <<>>
    /\ promoted = <<>>
    /\ settled = FALSE
    /\ sheet = <<>>
    /\ table = <<>>

\* the cache a first importer run leaves after one file
AfterOneFile ==
    {r.cache : r \in {rr \in {BatchStep(load_cache(NoFile), [id |-> fid, name |-> n], FALSE, reply) :
                                 fid \in {"f0", "f1"}, n \in ImportNames, reply \in Replies} :
                       ~rr.raised}}

\* the j-th of the files imported long ago
HistFile(j) ==
    [id |-> "h" \o ToString(j),
     name |-> <<"h" \o ToString(j), "_", "b", "_", "c", "_", "d", "_", "e", ".", "x">>]

\* the cache after importer runs that found n rule-parsable files
RECURSIVE HistCache(_)
HistCache(n) ==
    IF n = 0 THEN load_cache(NoFile)
    ELSE BatchStep(HistCache(n - 1), HistFile(n), FALSE, CHOOSE r \in Replies : TRUE).cache

\* the cache file a renamer run writes when there was none
RenamerOnly == <<[k |-> RENAME_LOG_KEY, v |-> [list |-> <<>>]]>>

ImportDisks ==
    {NoFile} \cup {FileOf(c) : c \in AfterOneFile
                                    \cup {HistCache(MaxExamples - 1), HistCache(MaxExamples)}
                                    \cup {RenamerOnly}}

InitImport ==
    /\ Idle
    /\ drive \in Listings(ImportNames)
    /\ disk \in ImportDisks
    /\ logfile = NoFile

NextImport ==
    \/ ImportStart
    \/ LoadError
    \/ ImportCached
    \/ ImportRule
    \/ ImportModel
    \/ ImportReturn
    \/ ImportDecide
    \/ SaveOpen
    \/ SaveDump
    \/ SaveClose
    \/ ImportSync
    \/ Kill

SpecImport == InitImport /\ [][NextImport]_vars

(***************************************************************************)
(* The renamer, started on cache files that importer runs over one or two  *)
(* files and an edit in the app have left.                                 *)
(***************************************************************************)
NameBare == <<"g">>

RenameNames == {NameRule, NameModel, NameBare}

RenameReplies == {r \in Replies : r.kind = "error" \/ r.parsed = FullFields}

ImportedOne ==
    {BatchStep(load_cache(NoFile), [id |-> FileIds[1], name |-> n], FALSE, r).cache :
        n \in RenameNames, r \in RenameReplies}

ImportedTwo ==
    {BatchStep(c, [id |-> FileIds[2], name |-> n], FALSE, r).cache :
        c \in ImportedOne, n \in RenameNames, r \in RenameReplies}

Edited ==
    UNION {{EditSave(c, key, OtherFields, UserNote) : key \in Keys(c) \ {EXAMPLES_KEY}} :
           c \in ImportedOne \cup ImportedTwo}

RenameDisks == {NoFile} \cup {FileOf(c) : c \in ImportedOne \cup ImportedTwo \cup Edited}

\* the file old.pdf, whose record has the fields X, Y, Z, W, V
NameOld == <<"old", ".", "pdf">>

FieldsXYZWV == << <<"X">>, <<"Y">>, <<"Z">>, <<"W">>, <<"V">> >>

OldDrive == <<[id |-> FileIds[1], name |-> NameOld]>>

OldDisk ==
    FileOf(EditSave(BatchStep(load_cache(NoFile), OldDrive[1], FALSE,
                              CHOOSE r \in Replies : r.kind = "error").cache,
                    NameOld, FieldsXYZWV, UserNote))

InitRename ==
    /\ Idle
    /\ \/ drive \in Listings(RenameNames) /\ disk \in RenameDisks
       \/ drive = OldDrive /\ disk = OldDisk
    /\ logfile = NoFile

NextRename ==
    \/ RenameStart
    \/ LoadError
    \/ RenameFile
    \/ RenameSame
    \/ RenameUnmatched
    \/ RenameFinish
    \/ SaveOpen
    \/ SaveDump
    \/ SaveClose
    \/ LogOpen
    \/ LogWrite
    \/ Kill

SpecRename == InitRename /\ [][NextRename]_vars

(***************************************************************************)
(* The Grammar Parser on every short filename: one file, no cache file,    *)
(* up to the return of batch_parse_and_update_cache.                       *)
(***************************************************************************)
Alphabet == {"a", "_", "."}

BoundedNames == UNION {[1..n -> Alphabet] : n \in 1..MaxStemLen}

NameDettol ==
    <<"3103159", "_", "Dettol", "_", "Soap", "_", "Cool", "_", "Menthol", "_",
      "96X135MM", "_", "9COL", ".", "pdf">>

NameGermol ==
    <<"ITM-GER-004", "_", "Germol", "_", "Soap", "_", "Lemon", "_", "174X95MM", "_",
      "5COL", ".", "png">>

InitParse ==
    /\ Idle
    /\ drive \in {<<[id |-> FileIds[1], name |-> n]>> :
                    n \in BoundedNames \cup {NameDettol, NameGermol}}
    /\ disk = NoFile
    /\ logfile = NoFile

NextParse ==
    \/ ImportStart
    \/ ImportRule
    \/ ImportModel
    \/ ImportReturn

SpecParse == InitParse /\ [][NextParse]_vars

(***************************************************************************)
(* The three programs run one after another on one folder, from a first    *)
(* start without a cache file.  The folder may hold files named like the   *)
(* reserved keys of the cache.                                             *)
(***************************************************************************)
AllNames == {NameRule, NameModel, RENAME_LOG_KEY, EXAMPLES_KEY}

\* a folder whose earlier files, one more than a batch prompt takes
\* examples, were imported and then removed; one new file has arrived
SeededDrive == <<[id |-> FileIds[1], name |-> NameModel]>>

SeededDisk == FileOf(HistCache(BatchExamples + 1))

InitAll ==
    /\ Idle
    /\ \/ drive \in Listings(AllNames) /\ disk = NoFile
       \/ drive = SeededDrive /\ disk = SeededDisk
    /\ logfile = NoFile

NextAll ==
    \/ ImportStart
    \/ LoadError
    \/ ImportCached
    \/ ImportRule
    \/ ImportModel
    \/ ImportReturn
    \/ ImportDecide
    \/ ImportSync
    \/ AppStart
    \/ AppQuery
    \/ AppRender
    \/ AppEdit
    \/ AppEnd
    \/ RenameStart
    \/ RenameFile
    \/ RenameSame
    \/ RenameUnmatched
    \/ RenameFinish
    \/ LogOpen
    \/ LogWrite
    \/ SaveOpen
    \/ SaveDump
    \/ SaveClose
    \/ Kill

SpecAll == InitAll /\ [][NextAll]_vars

(***************************************************************************)
(* Properties.                                                             *)
(***************************************************************************)
LastN(l, n) == IF Len(l) > n THEN SubSeq(l, Len(l) - n + 1, Len(l)) ELSE l

\* the pieces the claim of C3 speaks of: the stem cut at its first 4 underscores
Pieces(filename) == split(splitext(filename)[1], 4)

DettolFields ==
    << <<"3103159">>, <<"Dettol">>, <<"Soap", "_", "Cool", "_", "Menthol">>,
       <<"96X135MM">>, <<"9COL">> >>

GermolFields ==
    << <<"ITM-GER-004">>, <<"Germol">>, <<"Soap", "_", "Lemon">>,
       <<"174X95MM">>, <<"5COL">> >>

Range(l) == {l[j] : j \in 1..Len(l)}

\* C1: a renamer run that follows a renamer run which ran to its end, with
\* nothing else in between, executes no Drive rename and logs none.
C1_SecondRunRenamesNothing ==
    (prog = "renamer" /\ settled) => rename_log = <<>>

\* C2: the record the importer makes for each of the two scenario filenames
\* is a Rule record whose 3rd field is the whole ProductVariant and whose 4th
\* and 5th fields are Dimensions and ColourCount.
C2_ScenarioFields ==
    /\ IsRecordKey(cache, NameDettol) =>
          /\ Get(cache, NameDettol).parsed = DettolFields
          /\ Get(cache, NameDettol).source = "Rule"
    /\ IsRecordKey(cache, NameGermol) =>
          /\ Get(cache, NameGermol).parsed = GermolFields
          /\ Get(cache, NameGermol).source = "Rule"

\* C3: a new filename gets a Rule record if and only if its stem cuts into
\* exactly 5 pieces that are all non-empty; every other filename goes to the
\* Model-Assisted Parser.
C3_RuleIffFiveNonEmpty ==
    last.op \in {"rule", "model"} =>
        (last.op = "rule" <=>
            (Len(Pieces(last.name)) = 5 /\ \A j \in 1..5 : Pieces(last.name)[j] # <<>>))

\* C4: while the importer runs, the Example Store holds at most 20 entries and
\* is exactly the last 20 of the entries it held at load followed by the
\* entries promoted since, in promotion order.
C4_StoreIsLastTwenty ==
    prog = "importer" =>
        /\ Len(ExamplesOf(cache)) <= 20
        /\ ExamplesOf(cache) = LastN(promoted, 20)

\* C4 witness: a promotion went over the cap and the oldest entry is gone
C4_Evicted ==
    /\ prog = "importer"
    /\ last.op \in {"rule", "model"}
    /\ Len(promoted) > 20
    /\ Len(ExamplesOf(cache)) = 20
    /\ ExamplesOf(cache)[1] = promoted[Len(promoted) - 19]
    /\ ExamplesOf(cache)[20].filename = last.name

\* C5: when the primary completion service fails for a file, the batch
\* pipeline has called the secondary service once as well, and the notes of
\* the degraded record (5 empty fields) hold both failure descriptions.
C5_SecondaryTried ==
    (prog = "importer" /\ last.op = "model" /\ last.reply = "error") =>
        /\ Len(calls) = 2
        /\ calls[1].model = PrimaryModel
        /\ calls[2].model = SecondaryModel
        /\ Get(cache, last.name).parsed = EmptyFields
        /\ Len(Get(cache, last.name).notes) >= 3

\* C6: no outcome of the completion service aborts the batch, and when
\* batch_parse_and_update_cache has returned every listed filename has a
\* ParseRecord, degraded to 5 empty fields with the error in its notes when
\* the model-assisted parse failed.
C6_BatchNeverAborts ==
    /\ last.op = "model" => ~last.raised
    /\ (prog = "importer" /\ last.op = "model"
            /\ last.reply \in {"error", "text", "nokey", "null"}) =>
          /\ Get(cache, last.name).parsed = EmptyFields
          /\ Get(cache, last.name).notes # <<>>
    /\ (prog = "importer" /\ pc = "returned") =>
          \A j \in 1..Len(files) : IsRecordKey(cache, files[j].name)

\* C7: an iteration on a file whose name already has a ParseRecord changes
\* that record's view_url and nothing else: every other key, the Example
\* Store, the record's other fields and the updated flag stay as they are,
\* and no completion call is made.
C7_CachedOnlyRefreshes ==
    [][(InLoop /\ IsRecordKey(cache, files[i].name) /\ last'.op # "killed") =>
          /\ prog' = "importer"
          /\ i' = i + 1
          /\ [j \in 1..Len(cache') |-> cache'[j].k] = [j \in 1..Len(cache) |-> cache[j].k]
          /\ \A key \in Keys(cache) \ {files[i].name} : Get(cache', key) = Get(cache, key)
          /\ Get(cache', files[i].name) =
                 [Get(cache, files[i].name) EXCEPT !.view_url = view_url(files[i].id)]
          /\ promoted' = promoted
          /\ calls' = <<>>
          /\ last'.op = "cached"]_vars

\* C7 witness: an iteration refreshed the link of a record made by an earlier
\* run for another file id
C7_Refreshed ==
    /\ prog = "importer"
    /\ last.op = "cached"
    /\ IsRecordKey(cache, last.name)
    /\ IsRecordKey(load_cache(disk), last.name)
    /\ Get(cache, last.name).view_url # Get(load_cache(disk), last.name).view_url
    /\ Get(cache, last.name).view_url = view_url(files[i - 1].id)

\* C8: batch_parse_and_update_cache returns true exactly when the cache it
\* was given differs from the cache it leaves.
C8_ReturnsWhetherMutated ==
    (prog = "importer" /\ pc = "returned") =>
        (updated <=> ~SameContent(cache, load_cache(disk)))

\* C9: whenever a renamer run has ended, every entry that a completed run
\* ever wrote to the audit log is still in the audit file and under the
\* rename_log key of the cache file.
C9_AuditLogKeepsEntries ==
    (prog = "none" /\ settled) =>
        \A e \in Range(audited) :
            /\ e \in Range(logfile.content)
            /\ e \in Range(Get(disk.content, RENAME_LOG_KEY).list)

\* C10: the cache file is at every moment one complete document, the one
\* saved before or the new one, so that a load never fails.
C10_SaveIsAtomic == disk.exists => disk.complete

ReservedKeys == {EXAMPLES_KEY, RENAME_LOG_KEY}

RecordKeys(c) == {key \in Keys(c) : IsRecordKey(c, key)}

\* C11: no iteration over the cache handles a reserved key as a filename:
\* the key the sheet-sync row builder, the app's table builder or the editor
\* stopped at, and the name the reconciliation found "already cached", is
\* never examples or rename_log; the rows built and the renamer's two lookup
\* indexes hold neither key.
C11_ReservedKeysExcluded ==
    /\ last.op \in {"sync", "table", "editor", "cached"} => last.name \notin ReservedKeys
    /\ \A j \in 1..Len(sheet) : \A key \in ReservedKeys : key \notin Range(sheet[j])
    /\ \A j \in 1..Len(table) : \A key \in ReservedKeys : key \notin Range(table[j])
    /\ Keys(cache_by_old) \cap ReservedKeys = {}
    /\ \A j \in 1..Len(cache_by_new) : IsRecordKey(cache_by_new, cache_by_new[j].k)

\* C12: every ParseRecord, in memory and in the cache file, has exactly 5
\* fields, whatever the completion service replied.
C12_FieldsAlwaysFive ==
    /\ \A key \in RecordKeys(cache) : Len(Get(cache, key).parsed) = 5
    /\ disk.complete =>
          \A key \in RecordKeys(disk.content) : Len(Get(disk.content, key).parsed) = 5

\* C13: when the editor has saved an edit, the edited record's source is
\* UserCorrected, and the source of every record is Rule, GPT (the model) or
\* UserCorrected.
C13_EditSetsUserCorrected ==
    /\ \A key \in RecordKeys(cache) :
          Get(cache, key).source \in {"Rule", "GPT", "UserCorrected"}
    /\ (prog = "app" /\ last.op = "edited") =>
          Get(cache, last.name).source = "UserCorrected"

\* C14: a record that an iteration of the batch has just created is appended
\* to the Example Store, with its filename, fields and notes, if and only if
\* it has 5 fields that are all non-empty; otherwise the Example Store stays
\* as it was.
C14_PromotedIffAllFive ==
    [][(InLoop /\ ~Has(cache, files[i].name) /\ last'.op \in {"rule", "model"}
            /\ ~last'.raised) =>
          LET r == Get(cache', files[i].name)
              old == ExamplesOf(cache)
              new == ExamplesOf(cache')
          IN  IF Len(r.parsed) = 5 /\ \A j \in 1..5 : r.parsed[j] # <<>>
              THEN /\ Len(new) >= 1
                   /\ new[Len(new)].filename = files[i].name
                   /\ new[Len(new)].parsed = r.parsed
                   /\ new[Len(new)].notes = r.notes
                   /\ SubSeq(new, 1, Len(new) - 1) = LastN(old, 19)
              ELSE new = old]_vars

\* C14 witness: of two records made in one run, the one with 5 non-empty
\* fields is in the Example Store and the degraded one is not
C14_OnePromotedOneNot ==
    /\ prog = "importer"
    /\ \E k1, k2 \in RecordKeys(cache) \ RecordKeys(load_cache(disk)) :
          /\ Len(Get(cache, k1).parsed) = 5
          /\ \A j \in 1..5 : Get(cache, k1).parsed[j] # <<>>
          /\ \E e \in Range(ExamplesOf(cache)) :
                e.filename = k1 /\ e.parsed = Get(cache, k1).parsed
          /\ \E j \in 1..Len(Get(cache, k2).parsed) : Get(cache, k2).parsed[j] = <<>>
          /\ \A e \in Range(ExamplesOf(cache)) : e.filename # k2

\* C15: the examples of a prompt are the most recent entries of the Example
\* Store as it is when the prompt is built: the last 5 in the batch importer,
\* the last 2 (before the three written into the code) in the app.
C15_PromptUsesMostRecent ==
    [][/\ (InLoop /\ last'.op = "model" /\ ~last'.raised) =>
             calls'[1].prompt.examples = LastN(ExamplesOf(cache), 5)
       /\ (prog = "app" /\ pc = "query" /\ calls' # <<>>) =>
             LET ex == calls'[1].prompt.examples
             IN  SubSeq(ex, 1, Len(ex) - Len(EXAMPLES)) = LastN(ExamplesOf(cache), 2)]_vars

\* C16: for a listed file that resolves to a record, the renamer renames
\* that one file on Drive to the record's fields joined by "_" followed by the
\* extension of the file's current name and logs {file id, old name, new
\* name}, when that name differs from the current one; when it is the same the
\* folder and the log stay as they are.
C16_RenamesToTarget ==
    [][(InRename /\ Resolves(cache_by_old, cache_by_new, files[i].name)
            /\ last'.op # "killed") =>
          LET f == files[i]
              tgt == join(Resolve(cache_by_old, cache_by_new, f.name).parsed)
                         \o splitext(f.name)[2]
          IN  IF f.name # tgt
              THEN /\ drive' = [j \in 1..Len(drive) |->
                                   IF drive[j].id = f.id
                                   THEN [id |-> f.id, name |-> tgt] ELSE drive[j]]
                   /\ rename_log' = Append(rename_log, [file_id |-> f.id,
                                                        old_name |-> f.name,
                                                        new_name |-> tgt])
              ELSE /\ drive' = drive
                   /\ rename_log' = rename_log]_vars

\* C16 witness: old.pdf, with the fields X, Y, Z, W, V, has been renamed to
\* X_Y_Z_W_V.pdf
C16_OldPdfRenamed ==
    /\ prog = "renamer"
    /\ last.op = "renamed"
    /\ last.name = NameOld
    /\ drive = <<[id |-> FileIds[1],
                  name |-> <<"X", "_", "Y", "_", "Z", "_", "W", "_", "V", ".", "pdf">>]>>
    /\ rename_log = <<[file_id |-> FileIds[1], old_name |-> NameOld,
                       new_name |-> <<"X", "_", "Y", "_", "Z", "_", "W", "_", "V",
                                      ".", "pdf">>]>>

\* C17: when the renamer has renamed a file, the record the file resolved to
\* is in the cache under the new name, unchanged, and the old name is no
\* longer a key.
C17_RenameMovesKey ==
    (prog = "renamer" /\ pc = "loop" /\ last.op = "renamed") =>
        LET e == rename_log[Len(rename_log)]
        IN  /\ IsRecordKey(cache, e.new_name)
            /\ Get(cache, e.new_name) = Resolve(cache_by_old, cache_by_new, e.old_name)
            /\ ~Has(cache, e.old_name)

\* C18: an iteration on a listed file whose name is neither a record's key
\* nor a record's target name renames nothing, logs nothing and leaves the
\* cache as it is; the file is skipped.
C18_UnmatchedChangesNothing ==
    [][(InRename /\ ~Has(cache_by_old, files[i].name)
            /\ ~Has(cache_by_new, files[i].name) /\ last'.op # "killed") =>
          /\ drive' = drive
          /\ rename_log' = rename_log
          /\ cache' = cache
          /\ i' = i + 1
          /\ last'.op = "unmatched"]_vars

\* C18 witness: a file was skipped as unmatched while the cache holds
\* records of other files
C18_SkippedBesideRecords ==
    /\ prog = "renamer"
    /\ last.op = "unmatched"
    /\ RecordKeys(cache) # {}
    /\ ~Has(cache, last.name)
    /\ \A j \in 1..Len(drive) : drive[j] = files[j]
    /\ rename_log = <<>>

\* C19: no step of a running program loses a ParseRecord: every record of
\* the cache is still there with its fields and notes, under its key or, after
\* a rename, under the new name, which was free; only an edit of that record
\* changes its fields and notes; the number of records never goes down; a
\* program starts with the records of the cache file and a completed save
\* writes all of them.
C19_RecordsNeverLost ==
    [][/\ (prog # "none" /\ prog' = prog) =>
             /\ \A key \in RecordKeys(cache) :
                   \/ /\ key \in RecordKeys(cache')
                      /\ \/ /\ Get(cache', key).parsed = Get(cache, key).parsed
                            /\ Get(cache', key).notes = Get(cache, key).notes
                         \/ /\ prog = "app"
                            /\ pc = "editor"
                            /\ pc' = "save"
                            /\ last'.name = key
                   \/ /\ InRename
                      /\ last'.op = "renamed"
                      /\ key = files[i].name
                      /\ ~Has(cache, rename_log'[Len(rename_log')].new_name)
                      /\ IsRecordKey(cache', rename_log'[Len(rename_log')].new_name)
                      /\ Get(cache', rename_log'[Len(rename_log')].new_name)
                             = Get(cache, key)
             /\ Cardinality(RecordKeys(cache')) >= Cardinality(RecordKeys(cache))
             /\ (pc = "dump" /\ pc' # "dump") => disk'.content = cache
       /\ (prog = "none" /\ prog' # "none" /\ disk.exists) => cache' = disk.content]_vars

\* C20: when a renamer run has ended, a drive file and the record made for
\* it (the record whose view_url holds the file's id) agree: if the file
\* carries the record's target name, or the record's key is its target name,
\* then the file's name and the record's key are the same name.
C20_PartialConverges ==
    (prog = "none" /\ settled /\ disk.complete) =>
        \A j \in 1..Len(drive) : \A key \in RecordKeys(disk.content) :
            LET r == Get(disk.content, key)
                tgt == join(r.parsed) \o splitext(key)[2]
            IN  (r.view_url = view_url(drive[j].id)
                    /\ (drive[j].name = tgt \/ key = tgt))
                => drive[j].name = key

\* the parser's outcome for a filename, read from the record made for it
OutcomeOf(c, filename) ==
    [kind |-> "list", parsed |-> Get(c, filename).parsed, notes |-> Get(c, filename).notes]

\* batch_parse_and_update_cache (lines 122-164) on a whole listing, with the
\* outcomes of the records of `made`: [cache, raised]
RECURSIVE RunBatch(_, _, _)
RunBatch(c, listing, made) ==
    IF listing = <<>> THEN [cache |-> c, raised |-> FALSE]
    ELSE LET r == BatchStep(c, listing[1], FALSE, OutcomeOf(made, listing[1].name))
         IN  IF r.raised THEN [cache |-> c, raised |-> TRUE]
             ELSE RunBatch(r.cache, Tail(listing), made)

\* the listings that hold the same files in another order
Reorderings(listing) ==
    {[j \in 1..Len(listing) |-> listing[p[j]]] : p \in Permutations(1..Len(listing))}

\* C21: when batch_parse_and_update_cache has returned, the same batch run on
\* the same cache over any reordering of the listing, with the same parser
\* outcome for every filename, gives the same records, view_url included.
C21_OrderIndependent ==
    (prog = "importer" /\ pc = "returned") =>
        \A listing \in Reorderings(files) :
            LET r == RunBatch(load_cache(disk), listing, cache)
            IN  /\ ~r.raised
                /\ RecordKeys(r.cache) = RecordKeys(cache)
                /\ \A key \in RecordKeys(cache) : Get(r.cache, key) = Get(cache, key)

\* C22: when the importer has loaded, reconciled and conditionally saved,
\* the cache file holds, for every listed file, a record whose view_url is the
\* link of that file's id.
C22_SavedLinkIsCurrent ==
    (prog = "importer" /\ pc = "sync") =>
        /\ disk.complete
        /\ \A j \in 1..Len(files) :
              /\ IsRecordKey(disk.content, files[j].name)
              /\ Get(disk.content, files[j].name).view_url = view_url(files[j].id)

\* listed file a resolved to a record by its name as cache key, and listed
\* file b resolved to the same record by the record's target name
SharedRecord(a, b) ==
    /\ a # b
    /\ Has(cache_by_old, files[a].name)
    /\ ~Has(cache_by_old, files[b].name)
    /\ Has(cache_by_new, files[b].name)
    /\ Get(cache_by_new, files[b].name) = Get(cache_by_old, files[a].name)

\* C23: in a renamer run, two listed files that resolved to the same record,
\* one by the cache key and one by the target-name index, carry the same name
\* on Drive once both have been handled.
C23_SharedRecordSharedName ==
    (prog = "renamer" /\ pc = "loop") =>
        \A a, b \in 1..(i - 1) :
            SharedRecord(a, b) => drive[a].name = drive[b].name

\* C23 witness: the loop of a run is over, two files with different ids
\* resolved to one record, and the folder holds both under one name
C23_TwoFilesOneRecord ==
    /\ prog = "renamer"
    /\ pc = "loop"
    /\ i > Len(files)
    /\ \E a, b \in 1..Len(files) :
          /\ SharedRecord(a, b)
          /\ drive[a].id = files[a].id
          /\ drive[b].id = files[b].id
          /\ drive[a].id # drive[b].id
          /\ files[a].name # files[b].name
          /\ drive[a].name = drive[b].name

====
